---- MODULE Spec2Model ----
(***************************************************************************)
(* Model of path-permission's unix.rs: the PathPermission trait for Path   *)
(* (access, is_readable, is_writable, is_excutable, is_creatable,          *)
(* is_removable, check_access, get_access, chmod) over a small POSIX       *)
(* filesystem: a chain of directories with mode bits and an owner, a       *)
(* current working directory and one calling process.                      *)
(*                                                                         *)
(* A path is the sequence of its components as std::path::Path sees them:  *)
(* "/d/e" is <<"/", "d", "e">>, "./e" is <<".", "e">>, "e" is <<"e">>,      *)
(* "./" is <<".">> and "" is << >>.                                        *)
(***************************************************************************)
EXTENDS Integers, Sequences, FiniteSets

VARIABLES fs, pc, op, arg, param, os, ret, trace, probed

vars == <<fs, pc, op, arg, param, os, ret, trace, probed>>

----------------------------------------------------------------------------
(* Bounds of the model *)

\* number of directory levels below the root that may exist
MaxDepth == 2
\* number of nested is_creatable frames the model follows
MaxRecursion == 7

----------------------------------------------------------------------------
(* Constants of the program and of the OS interface it calls *)

X_OK == 1
W_OK == 2
R_OK == 4
EPERM == 1
ENOENT == 2
EIO == 5
EACCES == 13
S_ISVTX == \o1000
S_IFDIR == \o40000
SpecialMask == \o7000
PermMask == \o777
ModeMask == \o7777
U16 == 65536

RootDir == "/"
CurDir == "."
NamePool == <<"d", "e", "g", "h", "i", "j">>

\* the process's real user id, and another user
GetUid == 1000
OtherUid == 1001
RootUid == 0

\* the modes directories start with and chmod is called with
Modes == {\o755, \o1777, \o1755, \o644, \o4750}
RootMode == \o755

----------------------------------------------------------------------------
(* Values returned to the caller: io::Result<bool>, io::Result<String>,    *)
(* and the unwinding of a failed unwrap()                                  *)

Ok(b) == [kind |-> "Ok", val |-> b, err |-> 0, text |-> << >>]
OkText(s) == [kind |-> "Ok", val |-> TRUE, err |-> 0, text |-> s]
Err(e) == [kind |-> "Err", val |-> FALSE, err |-> e, text |-> << >>]
Panic == [kind |-> "Panic", val |-> FALSE, err |-> 0, text |-> << >>]
NoRet == [kind |-> "None", val |-> FALSE, err |-> 0, text |-> << >>]
NoOs == [ret |-> 0, errno |-> 0]

----------------------------------------------------------------------------
(* Bit arithmetic *)

RECURSIVE BitAnd(_, _)
BitAnd(a, b) ==
    IF a = 0 \/ b = 0 THEN 0
    ELSE (a % 2) * (b % 2) + 2 * BitAnd(a \div 2, b \div 2)

AsU16(x) == x % U16

----------------------------------------------------------------------------
(* The filesystem: fs maps each existing node (the names from the root) to *)
(* its mode bits and owner.  Every node is a directory.                    *)

Node(i) == SubSeq(NamePool, 1, i)
Root == Node(0)
Cwd == Node(1)
Nodes == {Node(i) : i \in 0..MaxDepth}

\* the permission class access(2) applies: owner bits for the owner, else other
\* (the process is in no file's group and is not the superuser)
ClassBits(f, n) ==
    IF f[n].uid = GetUid THEN (f[n].mode \div 64) % 8 ELSE f[n].mode % 8

Granted(f, n, amode) == BitAnd(ClassBits(f, n), amode) = amode

\* path resolution: search permission on every directory walked through
RECURSIVE Walk(_, _, _)
Walk(f, n, comps) ==
    IF comps = << >> THEN [errno |-> 0, node |-> n]
    ELSE IF ~Granted(f, n, X_OK) THEN [errno |-> EACCES, node |-> n]
    ELSE IF Head(comps) = CurDir THEN Walk(f, n, Tail(comps))
    ELSE IF Append(n, Head(comps)) \notin DOMAIN f THEN [errno |-> ENOENT, node |-> n]
    ELSE Walk(f, Append(n, Head(comps)), Tail(comps))

Lookup(f, p) ==
    IF p = << >> THEN [errno |-> ENOENT, node |-> Root]
    ELSE IF Head(p) = RootDir THEN Walk(f, Root, Tail(p))
    ELSE Walk(f, Cwd, p)

\* stat(2) behind Path::metadata
Metadata(f, p) ==
    LET r == Lookup(f, p) IN
    IF r.errno # 0 THEN [errno |-> r.errno, mode |-> 0, uid |-> 0]
    ELSE [errno |-> 0, mode |-> S_IFDIR + f[r.node].mode, uid |-> f[r.node].uid]

\* Path::exists
Exists(f, p) == Metadata(f, p).errno = 0

\* libc::access
OsAccess(f, p, amode) ==
    LET r == Lookup(f, p) IN
    IF r.errno # 0 THEN [ret |-> -1, errno |-> r.errno]
    ELSE IF ~Granted(f, r.node, amode) THEN [ret |-> -1, errno |-> EACCES]
    ELSE [ret |-> 0, errno |-> 0]

\* libc::chmod: the return value and errno
OsChmod(f, p) ==
    LET r == Lookup(f, p) IN
    IF r.errno # 0 THEN [ret |-> -1, errno |-> r.errno]
    ELSE IF f[r.node].uid # GetUid THEN [ret |-> -1, errno |-> EPERM]
    ELSE [ret |-> 0, errno |-> 0]

\* libc::chmod: the filesystem afterwards
ChmodFs(f, p, mode) ==
    LET r == Lookup(f, p) IN
    IF OsChmod(f, p).ret = 0
    THEN [f EXCEPT ![r.node] = [mode |-> BitAnd(mode, ModeMask), uid |-> f[r.node].uid]]
    ELSE f

----------------------------------------------------------------------------
(* unix.rs *)

\* access with every failure read as a refusal
AccessResult_AnyFailureFalse(o) ==
    IF o.ret = 0 THEN Ok(TRUE) ELSE Ok(FALSE)

\* the match on libc::access's result
AccessResult(o) ==
    IF o.ret = 0 THEN Ok(TRUE)
    ELSE IF o.errno = EACCES THEN Ok(FALSE)
    ELSE Err(o.errno)

Access(f, p, amode) == AccessResult(OsAccess(f, p, amode))

\* the match on libc::chmod's result
ChmodResult(o) ==
    IF o.ret = 0 THEN Ok(TRUE)
    ELSE IF o.ret = 1 \/ o.ret = 2 THEN Ok(FALSE)
    ELSE Err(o.errno)

\* match self.parent() { None => Path::new("./"), Some(parent) => parent }
ParentOrCur(p) ==
    IF p = << >> \/ p[Len(p)] = RootDir THEN <<CurDir>>
    ELSE SubSeq(p, 1, Len(p) - 1)

CheckAccess(f, p, mode) ==
    LET md == Metadata(f, p) IN
    IF md.errno = 0
    THEN Ok(BitAnd(AsU16(md.mode), mode) = mode)
    ELSE Err(md.errno)

\* format!("{:o}", n) as the sequence of its digits
RECURSIVE Octal(_)
Octal(n) == IF n < 8 THEN <<n>> ELSE Octal(n \div 8) \o <<n % 8>>

GetAccess(f, p) ==
    LET md == Metadata(f, p) IN
    IF md.errno = 0
    THEN OkText(Octal(BitAnd(AsU16(md.mode), SpecialMask))
                \o Octal(BitAnd(AsU16(md.mode), PermMask)))
    ELSE Err(md.errno)

\* is_removable without the comparison of getuid() with the owner
IsRemovable_IgnoresOwner(f, p) ==
    IF ~Exists(f, p) THEN Ok(FALSE)
    ELSE LET parent == ParentOrCur(p)
             sticky == CheckAccess(f, parent, S_ISVTX)
         IN  IF sticky.kind # "Ok" THEN Panic
             ELSE Access(f, parent, X_OK + W_OK)

\* is_removable without the early return for a path that does not exist
IsRemovable_NoExistsCheck(f, p) ==
    LET parent == ParentOrCur(p)
        sticky == CheckAccess(f, parent, S_ISVTX)
        md == Metadata(f, p)
    IN  IF sticky.kind # "Ok" THEN Panic
        ELSE IF ~sticky.val THEN Access(f, parent, X_OK + W_OK)
        ELSE IF md.errno # 0 THEN Panic
        ELSE IF GetUid = md.uid THEN Access(f, parent, X_OK + W_OK)
        ELSE Ok(FALSE)

IsRemovable(f, p) ==
    IF ~Exists(f, p) THEN Ok(FALSE)
    ELSE LET parent == ParentOrCur(p)
             sticky == CheckAccess(f, parent, S_ISVTX)
             md == Metadata(f, p)
         IN  IF sticky.kind # "Ok" THEN Panic
             ELSE IF ~sticky.val THEN Access(f, parent, X_OK + W_OK)
             ELSE IF md.errno # 0 THEN Panic
             ELSE IF GetUid = md.uid THEN Access(f, parent, X_OK + W_OK)
             ELSE Ok(FALSE)

----------------------------------------------------------------------------
(* The paths and arguments the caller passes *)

AbsPath(i) == <<RootDir>> \o Node(i)
RelPath(i) == SubSeq(NamePool, 2, i)
DotPath(i) == <<CurDir>> \o RelPath(i)

Paths ==
    {<< >>, <<RootDir>>, <<CurDir>>}
    \cup {AbsPath(i) : i \in 1..(MaxDepth + 2)}
    \cup {RelPath(i) : i \in 2..(MaxDepth + 2)}
    \cup {DotPath(i) : i \in 2..(MaxDepth + 1)}

AModes == {R_OK, X_OK + W_OK, R_OK + W_OK}
CheckModes == {S_ISVTX, \o755}
Faults == {0, EIO}

----------------------------------------------------------------------------
(* The state machine: one call at a time, then the caller takes the result *)

Attrs == [mode : Modes, uid : {GetUid, OtherUid}]

FsStates ==
    UNION {{f \in [{Node(i) : i \in 0..l} -> Attrs \cup {[mode |-> RootMode, uid |-> RootUid]}] :
              /\ f[Root] = [mode |-> RootMode, uid |-> RootUid]
              /\ \A i \in 1..l : f[Node(i)].uid # RootUid} : l \in 1..MaxDepth}

Init ==
    /\ fs \in FsStates
    /\ pc = "idle"
    /\ op = "none"
    /\ arg = << >>
    /\ param = 0
    /\ os = NoOs
    /\ ret = NoRet
    /\ trace = << >>
    /\ probed = {}

Done(o, p, m, r) ==
    /\ pc' = "done"
    /\ op' = o
    /\ arg' = p
    /\ param' = m
    /\ ret' = r
    /\ trace' = << >>
    /\ probed' = {}

AccessCall ==
    /\ pc = "idle"
    /\ \E p \in Paths, amode \in AModes, fault \in Faults :
          /\ os' = IF fault = 0 THEN OsAccess(fs, p, amode)
                   ELSE [ret |-> -1, errno |-> fault]
          /\ Done("access", p, amode, AccessResult(os'))
    /\ UNCHANGED fs

IsReadable ==
    /\ pc = "idle"
    /\ \E p \in Paths : Done("is_readable", p, R_OK, Access(fs, p, R_OK))
    /\ UNCHANGED <<fs, os>>

IsWritable ==
    /\ pc = "idle"
    /\ \E p \in Paths : Done("is_writable", p, W_OK, Access(fs, p, W_OK))
    /\ UNCHANGED <<fs, os>>

IsExcutable ==
    /\ pc = "idle"
    /\ \E p \in Paths : Done("is_excutable", p, X_OK, Access(fs, p, X_OK))
    /\ UNCHANGED <<fs, os>>

IsRemovableCall ==
    /\ pc = "idle"
    /\ \E p \in Paths : Done("is_removable", p, 0, IsRemovable(fs, p))
    /\ UNCHANGED <<fs, os>>

CheckAccessCall ==
    /\ pc = "idle"
    /\ \E p \in Paths, mode \in CheckModes :
          Done("check_access", p, mode, CheckAccess(fs, p, mode))
    /\ UNCHANGED <<fs, os>>

GetAccessCall ==
    /\ pc = "idle"
    /\ \E p \in Paths : Done("get_access", p, 0, GetAccess(fs, p))
    /\ UNCHANGED <<fs, os>>

ChmodCall ==
    /\ pc = "idle"
    /\ \E p \in Paths, mode \in Modes, fault \in Faults :
          /\ os' = IF fault = 0 THEN OsChmod(fs, p)
                   ELSE [ret |-> -1, errno |-> fault]
          /\ fs' = IF fault = 0 THEN ChmodFs(fs, p, mode) ELSE fs
          /\ Done("chmod", p, mode, ChmodResult(os'))

\* is_creatable: the outermost frame is entered
IsCreatableCall ==
    /\ pc = "idle"
    /\ \E p \in Paths :
          /\ pc' = "creatable"
          /\ op' = "is_creatable"
          /\ arg' = p
          /\ trace' = <<p>>
    /\ param' = 0
    /\ ret' = NoRet
    /\ probed' = {}
    /\ UNCHANGED <<fs, os>>

\* the path the innermost is_creatable frame runs on
Self == trace[Len(trace)]

\* if ! parent.exists() { parent.is_creatable() }
IsCreatableRecurse ==
    /\ pc = "creatable"
    /\ ~Exists(fs, ParentOrCur(Self))
    /\ Len(trace) < MaxRecursion
    /\ trace' = Append(trace, ParentOrCur(Self))
    /\ UNCHANGED <<fs, pc, op, arg, param, os, ret, probed>>

\* the probe of the existing ancestor with W_OK alone
IsCreatableProbe_WriteOnly ==
    /\ pc = "creatable"
    /\ Exists(fs, ParentOrCur(Self))
    /\ probed' = probed \cup {[path |-> ParentOrCur(Self), amode |-> W_OK]}
    /\ ret' = Access(fs, ParentOrCur(Self), W_OK)
    /\ pc' = "done"
    /\ UNCHANGED <<fs, op, arg, param, os, trace>>

\* else { parent.access(libc::X_OK + libc::W_OK) }, returned through every frame
IsCreatableProbe ==
    /\ pc = "creatable"
    /\ Exists(fs, ParentOrCur(Self))
    /\ probed' = probed \cup {[path |-> ParentOrCur(Self), amode |-> X_OK + W_OK]}
    /\ ret' = Access(fs, ParentOrCur(Self), X_OK + W_OK)
    /\ pc' = "done"
    /\ UNCHANGED <<fs, op, arg, param, os, trace>>

\* the caller takes the result
Return ==
    /\ pc = "done"
    /\ pc' = "idle"
    /\ op' = "none"
    /\ arg' = << >>
    /\ param' = 0
    /\ os' = NoOs
    /\ ret' = NoRet
    /\ trace' = << >>
    /\ probed' = {}
    /\ UNCHANGED fs

Next ==
    \/ AccessCall
    \/ IsReadable
    \/ IsWritable
    \/ IsExcutable
    \/ IsRemovableCall
    \/ CheckAccessCall
    \/ GetAccessCall
    \/ ChmodCall
    \/ IsCreatableCall
    \/ IsCreatableRecurse
    \/ IsCreatableProbe
    \/ Return

Spec == Init /\ [][Next]_vars

----------------------------------------------------------------------------
(* What is true of the filesystem, whatever the process may look at *)

\* the node a path names, permissions aside; NoNode when there is none
NoNode == <<RootDir>>

RECURSIVE TrueWalk(_, _, _)
TrueWalk(f, n, comps) ==
    IF comps = << >> THEN n
    ELSE IF Head(comps) = CurDir THEN TrueWalk(f, n, Tail(comps))
    ELSE IF Append(n, Head(comps)) \notin DOMAIN f THEN NoNode
    ELSE TrueWalk(f, Append(n, Head(comps)), Tail(comps))

TrueNode(f, p) ==
    IF p = << >> THEN NoNode
    ELSE IF Head(p) = RootDir THEN TrueWalk(f, Root, Tail(p))
    ELSE TrueWalk(f, Cwd, p)

TrulyExists(f, p) == TrueNode(f, p) # NoNode

\* the existing directories path resolution walks through before p's last component
DirsOnWay(f, p) ==
    ({TrueNode(f, SubSeq(p, 1, i)) : i \in 1..(Len(p) - 1)} \ {NoNode})
    \cup (IF p # << >> /\ Head(p) # RootDir THEN {Cwd} ELSE {})

AllSearchable(f, p) == \A n \in DirsOnWay(f, p) : Granted(f, n, X_OK)

\* the n-th ancestor of p as is_creatable takes parents
RECURSIVE Ancestor(_, _)
Ancestor(p, n) == IF n = 0 THEN p ELSE ParentOrCur(Ancestor(p, n - 1))

\* ancestors are looked for this far: beyond "./" the chain repeats "" and "./"
AncestorRange(p) == 1..(Len(p) + 3)

HasExistingAncestor(f, p) == \E n \in AncestorRange(p) : Exists(f, Ancestor(p, n))

FirstExisting(f, p) ==
    CHOOSE n \in AncestorRange(p) :
        /\ Exists(f, Ancestor(p, n))
        /\ \A m \in 1..(n - 1) : ~Exists(f, Ancestor(p, m))

FirstTrulyExisting(f, p) ==
    CHOOSE n \in AncestorRange(p) :
        /\ TrulyExists(f, Ancestor(p, n))
        /\ \A m \in 1..(n - 1) : ~TrulyExists(f, Ancestor(p, m))

Sticky(f, n) == (f[n].mode \div S_ISVTX) % 2 = 1

\* the four octal digits of a 12-bit mode
ModeText(m) == <<(m \div 512) % 8, (m \div 64) % 8, (m \div 8) % 8, m % 8>>

IsBareName(p) == Len(p) = 1 /\ p[1] \notin {RootDir, CurDir}

Probes == {"is_readable", "is_writable", "is_excutable"}

----------------------------------------------------------------------------
(* The claims *)

\* C1: for an existing path whose parent directory can be stat'ed, is_removable
\* is Ok(false) when the parent is sticky and the process's uid is not the
\* path's owner, and otherwise exactly the result of access(parent, W_OK|X_OK).
C1_RemovableDecision ==
    (/\ pc = "done"
     /\ op = "is_removable"
     /\ TrulyExists(fs, arg)
     /\ Metadata(fs, ParentOrCur(arg)).errno = 0)
    => LET d == ParentOrCur(arg) IN
       ret = IF Sticky(fs, TrueNode(fs, d)) /\ GetUid # fs[TrueNode(fs, arg)].uid
             THEN Ok(FALSE)
             ELSE AccessResult(OsAccess(fs, d, X_OK + W_OK))

\* C1's case: a sticky parent the process may write and search, a path owned by
\* another user, and is_removable has answered Ok(false).
C1_Witness ==
    /\ pc = "done"
    /\ op = "is_removable"
    /\ TrulyExists(fs, arg)
    /\ Metadata(fs, ParentOrCur(arg)).errno = 0
    /\ Sticky(fs, TrueNode(fs, ParentOrCur(arg)))
    /\ fs[TrueNode(fs, arg)].uid = OtherUid
    /\ OsAccess(fs, ParentOrCur(arg), X_OK + W_OK).ret = 0
    /\ ret = Ok(FALSE)

\* C2: a finished is_creatable has descended through exactly the non-existent
\* ancestors, has made one access call, on the first existing ancestor with the
\* mask W_OK|X_OK, and returns
\* what one access(ancestor, W_OK|X_OK) returns; that is also what the probe of the
\* first ancestor present in the filesystem returns.
C2_CreatableIsOneProbe ==
    (pc = "done" /\ op = "is_creatable")
    => /\ HasExistingAncestor(fs, arg)
       /\ LET k == FirstExisting(fs, arg)
              t == FirstTrulyExisting(fs, arg)
          IN  /\ ret = AccessResult(OsAccess(fs, Ancestor(arg, k), X_OK + W_OK))
              /\ probed = {[path |-> Ancestor(arg, k), amode |-> X_OK + W_OK]}
              /\ Len(trace) = k
              /\ \A i \in 1..k : trace[i] = Ancestor(arg, i - 1)
              /\ ret = AccessResult(OsAccess(fs, Ancestor(arg, t), X_OK + W_OK))

\* C2's case: two non-existent ancestors were passed and the probe granted.
C2_Witness ==
    /\ pc = "done"
    /\ op = "is_creatable"
    /\ Len(trace) = 3
    /\ Head(arg) = RootDir
    /\ FirstTrulyExisting(fs, arg) = 3
    /\ ret = Ok(TRUE)

\* C3: chmod gives Ok(true) on OS success, Ok(false) when the OS call fails with
\* permission denied or no such path, and Err on every other failure.
C3_ChmodClassification ==
    (pc = "done" /\ op = "chmod")
    => /\ os.ret = 0 => ret = Ok(TRUE)
       /\ (os.ret # 0 /\ os.errno \in {EACCES, EPERM, ENOENT}) => ret = Ok(FALSE)
       /\ (os.ret # 0 /\ os.errno \notin {EACCES, EPERM, ENOENT}) => ret.kind = "Err"

\* C4: get_access on a path that can be stat'ed returns the special-bits digit
\* followed by the three permission digits of its mode.
C4_GetAccessText ==
    (pc = "done" /\ op = "get_access" /\ Metadata(fs, arg).errno = 0)
    => ret = OkText(ModeText(fs[TrueNode(fs, arg)].mode))

\* C5: is_removable never panics, and a failure to read the metadata of the
\* parent of an existing path is returned as Err.
C5_RemovableNeverPanics ==
    (pc = "done" /\ op = "is_removable")
    => /\ ret.kind # "Panic"
       /\ (Exists(fs, arg) /\ Metadata(fs, ParentOrCur(arg)).errno # 0)
              => ret.kind = "Err"

\* C6: access is Ok(true) iff the OS check succeeds, Ok(false) iff it fails with
\* EACCES, and Err carrying the OS error for every other failure.
C6_AccessClassification ==
    (pc = "done" /\ op = "access")
    => /\ ret.kind \in {"Ok", "Err"}
       /\ ret = Ok(TRUE) <=> os.ret = 0
       /\ ret = Ok(FALSE) <=> (os.ret # 0 /\ os.errno = EACCES)
       /\ ret.kind = "Err" <=> (os.ret # 0 /\ os.errno # EACCES)
       /\ ret.kind = "Err" => ret = Err(os.errno)

\* C6's case: access on a path that does not exist has returned the OS's ENOENT.
C6_Witness ==
    /\ pc = "done"
    /\ op = "access"
    /\ ~TrulyExists(fs, arg)
    /\ os = [ret |-> -1, errno |-> ENOENT]
    /\ ret = Err(ENOENT)

\* C7 as stated: on a path that does not exist is_removable is Ok(false), and
\* is_readable, is_writable and is_excutable are Err with "no such path".
C7_AbsenceAsStated ==
    (pc = "done" /\ ~TrulyExists(fs, arg))
    => /\ op = "is_removable" => ret = Ok(FALSE)
       /\ op \in Probes => ret = Err(ENOENT)

\* C7 as amended: on a path that does not exist is_removable is Ok(false); the
\* three probes are Err(ENOENT) when every directory on the way to the path is
\* searchable, and Ok(false) when one of them is not.
C7_AbsenceAsymmetry ==
    (pc = "done" /\ ~TrulyExists(fs, arg))
    => /\ op = "is_removable" => ret = Ok(FALSE)
       /\ op \in Probes =>
              ret = IF AllSearchable(fs, arg) THEN Err(ENOENT) ELSE Ok(FALSE)

\* C7's case: a probe of a missing path below searchable directories has
\* returned Err(ENOENT).
C7_Witness ==
    /\ pc = "done"
    /\ op = "is_readable"
    /\ Len(arg) > 1
    /\ ~TrulyExists(fs, arg)
    /\ AllSearchable(fs, arg)
    /\ ret = Err(ENOENT)

\* C8: when chmod(p, m) returns Ok(true), get_access(p) in the state it leaves,
\* if it can still stat p, returns the four octal digits of m, and no other
\* path's mode has changed.
C8_ChmodRoundTrip ==
    [][(pc' = "done" /\ op' = "chmod" /\ ret' = Ok(TRUE))
       => /\ GetAccess(fs', arg').kind = "Ok"
                 => GetAccess(fs', arg') = OkText(ModeText(param'))
          /\ DOMAIN fs' = DOMAIN fs
          /\ \A n \in DOMAIN fs : n # TrueNode(fs, arg') => fs'[n] = fs[n]]_vars

\* C9: is_creatable's recursion never visits the same path twice (the filesystem
\* does not change during the call, so a path visited twice is visited forever).
C9_CreatableTerminates ==
    op = "is_creatable"
    => \A i, j \in 1..Len(trace) : i # j => trace[i] # trace[j]

\* C10: for a bare name is_creatable equals access("./", W_OK|X_OK), and
\* is_removable of an existing bare name equals is_removable of "./" + name.
C10_BareNameUsesCwd ==
    (pc = "done" /\ IsBareName(arg))
    => /\ op = "is_creatable" => ret = Access(fs, <<CurDir>>, X_OK + W_OK)
       /\ (op = "is_removable" /\ Exists(fs, arg))
              => ret = IsRemovable(fs, <<CurDir>> \o arg)

====
